---- MODULE Spec2Model ----
(***************************************************************************)
(* Speak2Sign front end: the voice-activity segmenter of VADVoiceRecorder, *)
(* the per-segment translation chain (handleSegment), the page's result    *)
(* handler (handleVADUpdate) and the sentence player of SiGMLDisplay.      *)
(*                                                                         *)
(* Levels are fixed-point numbers in units of 1e-4 of full scale.  Texts   *)
(* are sequences of characters: 0 is a blank, any other number a word      *)
(* character that carries the id of the segment the text belongs to.      *)
(***************************************************************************)
EXTENDS Integers, Sequences, FiniteSets, TLC

\* ---------------------------------------------------------------- bounds
MaxSpeech == 3
MaxIdle == 2
MaxStarts == 2
MaxSegs == 2
MaxClears == 1
MaxSessions == 1  \* recording sessions, where frames and requests interleave
MaxFlight == 1    \* segments per session spec (SpecFaults: those not failed)
MaxFrames == 3     \* frames' worth of samples received per capture
MaxLen == 3       \* samples of a segment whose contents are followed

\* ------------------------------------------------------ program constants
FRAME_SIZE_MS == 10
HOP_MS == 10
MIN_VOICE_MS == 200
MAX_SILENCE_HANGOVER_MS == 400
START_TRIGGER_FRAMES == 2
TARGET_SR == 16000
NOISE_ALPHA_PCT == 95
InitNoiseRms == 10

CeilDiv(a, b) == (a + b - 1) \div b

STOP_TRIGGER_FRAMES == CeilDiv(MAX_SILENCE_HANGOVER_MS, HOP_MS)

\* LEVEL_SENSITIVITY = 1.5 as the fraction 3/2: rms <= noiseRms * 1.5
AboveThreshold(rms, noise) == 2 * rms > 3 * noise

\* dbfs(rms) > MIN_DBFS_GATE (-55 dBFS): 20*log10(rms) > -55 iff
\* rms > 10^(-55/20) = 0.00177827..., i.e. rms >= 18 units of 1e-4
GateRms == 17
GateOpen(rms) == TRUE

GatePassed(rms) == rms > GateRms

\* Math.round((FRAME_SIZE_MS / 1000) * sampleRate)
SamplesPerFrameOf(sr) == (FRAME_SIZE_MS * sr + 500) \div 1000

\* capture rates a session may get from the audio context
Rates == {16000, 48000}

\* frame levels fed by the frame pump: room noise, a level above the
\* adaptive threshold but under the absolute gate, and speech
Levels == {8, 17, 500}

\* samples in one block posted by the worklet's process()
RenderQuantum == 128

VARIABLES
    status,            \* "idle" | "listening" | "error"
    starting,          \* start() calls awaiting getUserMedia
    refStream,         \* mediaStreamRef / audioCtxRef hold a live stream
    refPump,           \* workletNodeRef holds a node with onmessage attached
    liveStreams,       \* media streams acquired and not stopped
    livePumps,         \* frame pumps whose onmessage handler is attached
    inputSampleRate,   \* inputSampleRateRef
    inSpeech, consecVoiced, consecUnvoiced, noiseRms, samplesPerFrame,
    captureBuf,        \* captureBufRef: frames of the segment in progress
    isProcessing, errorMessage,
    pipe,              \* one entry per handleSegment call, in call order
    deviceRate,        \* the sample rate of the capture device
    frameBuf,          \* vadStateRef.current.frameBuf: the carried remainder
    chunkBuf,          \* pushAndProcessFrames' buf while its loop runs
    offset,            \* pushAndProcessFrames' offset
    pumpPc,            \* "idle" | "loop": position of the onmessage handler
    received,          \* history: samples received since capture went live
    framed,            \* history: frames passed to processFrame since then
    resamplePhase,     \* resampleStateRef.current.phase
    encoded,           \* history: the segment the last encoding step was
                       \* given and the clip it built, or NoClip
    out,               \* history: the segment the last step handed to
                       \* handleSegment, or NoSegment
    streamPos,         \* history: frames since the voiced run in progress
                       \* (or the segment in progress) began
    nStarts,           \* start clicks so far
    voicedRun,         \* history: voiced frames ending the session's stream
    unvoicedRun,       \* history: unvoiced frames ending the frame stream
    lastOp,            \* history: what the last step did
    \* --- HomePage
    sentences,         \* useState: the completed sentences
    currentSegment,    \* useState: [transcription, gloss] of the newest segment
    boundSegment,      \* the currentSegment captured by the onResult closure
                       \* the worklet's handler holds (taken at the start click)
    nClears,           \* clear clicks so far
    \* --- SiGMLDisplay
    cwasaLoaded, playedSentences,          \* useState
    sentencesChanged,  \* sentences was set since the last commit
    rLen, rLoaded,                         \* effect dependencies at the last commit
    scriptStage,       \* "loading" | "t250" | "t600" | "done" | "failed"
    initOnceRef, pendingSentences, playbackQueue, isPlayingRef,  \* useRef
    initCalls,         \* history: CWASA.init calls that returned
    currentlyPlayingGloss, currentWordIndex,                     \* useState
    runs,              \* playNextSentence calls waiting in their hold
    nextTimers,        \* pending setTimeout(playNextSentence) callbacks
    inserted,          \* history: sentences put in the pending buffer or queue
    dequeued,          \* history: sentences shifted off the queue
    playLog,           \* history: sentences passed to CWASA.playSiGMLText
    playErrors         \* history: CWASA.playSiGMLText calls that threw

captureVars == <<starting, refStream, refPump, liveStreams, livePumps,
                 inputSampleRate, inSpeech, consecVoiced, consecUnvoiced,
                 noiseRms, samplesPerFrame, captureBuf, streamPos, nStarts,
                 voicedRun, unvoicedRun>>

vadVars == <<status, captureVars>>

pageVars == <<sentences, currentSegment, sentencesChanged>>

displayVars == <<cwasaLoaded, playedSentences, rLen, rLoaded,
                 scriptStage, initOnceRef, initCalls, pendingSentences,
                 playbackQueue,
                 isPlayingRef, currentlyPlayingGloss, currentWordIndex, runs,
                 nextTimers, inserted, dequeued, playLog,
                 playErrors>>

pipeVars == <<pipe, isProcessing, errorMessage>>

pumpVars == <<frameBuf, chunkBuf, offset, pumpPc, received, framed>>

vars == <<vadVars, deviceRate, pumpVars, resamplePhase, encoded, out, lastOp, pipeVars, pageVars, boundSegment,
          nClears, displayVars>>

\* ---------------------------------------------------------------- helpers
EmptySegment == [transcription |-> <<>>, gloss |-> <<>>]

Range(n) == [i \in 1..n |-> i]

RECURSIVE SumLen(_)
SumLen(frames) ==
    IF frames = <<>> THEN 0 ELSE Head(frames).len + SumLen(Tail(frames))

FrameIds(frames) == [i \in 1..Len(frames) |-> frames[i].id]

TooShortInclusive(samples, sr) == samples * 1000 <= MIN_VOICE_MS * sr

\* durationSec * 1000 < MIN_VOICE_MS, with durationSec = samples / inputSr
TooShort(samples, sr) == samples * 1000 < MIN_VOICE_MS * sr

\* --------------------------------------------------------------- the clip
\* A Float32 sample is a whole number of 1/SampleUnit, Int16 samples and
\* bytes are integers.
SampleUnit == 4

\* segment contents: below -1, -1, 0, 1/4, 1, above 1
SampleValues == {-6, -4, 0, 1, 4, 6}

\* the levels of the longer segments
LongValues == {-6, 0, 4}

\* the segments handed to handleSegment with their contents: of one sample
\* at every level, and of up to MaxLen samples at the levels of LongValues
Segments ==
    [1..1 -> SampleValues] \cup UNION {[1..n -> LongValues] : n \in 0..MaxLen}

Min(a, b) == IF a < b THEN a ELSE b

Max(a, b) == IF a > b THEN a ELSE b

\* the conversion of a number to an Int16Array element drops its fraction
Trunc(a, b) == IF a < 0 THEN -((-a) \div b) ELSE a \div b

NoClamp(x) == x

Clamp(x) == Max(-SampleUnit, Min(SampleUnit, x))

\* output[i] = s < 0 ? s * 0x8000 : s * 0x7fff
Scale(s) == IF s < 0 THEN Trunc(s * 32768, SampleUnit)
            ELSE Trunc(s * 32767, SampleUnit)

\* an Int16Array element keeps the low 16 bits, read as a signed number
ToInt16(v) == ((v + 32768) % 65536) - 32768

FloatTo16BitPCM(input) ==
    [i \in 1..Len(input) |-> ToInt16(Scale(Clamp(input[i])))]

\* DataView little-endian stores
ByteOf(n, k) == (n \div (256 ^ k)) % 256

Uint16BE(n) == <<ByteOf(n % 65536, 1), ByteOf(n % 65536, 0)>>

Uint16LE(n) == <<ByteOf(n % 65536, 0), ByteOf(n % 65536, 1)>>

\* (the sizes and rates stored are non-negative and far below 2^32)
Uint32LE(n) == [k \in 1..4 |-> ByteOf(n, k - 1)]

Int16LE(v) == Uint16LE(v + 65536)

RECURSIVE Int16sLE(_)
Int16sLE(pcm16) ==
    IF pcm16 = <<>> THEN <<>>
    ELSE Int16LE(Head(pcm16)) \o Int16sLE(Tail(pcm16))

\* str.charCodeAt of "RIFF", "WAVE", "fmt " and "data"
RIFF == <<82, 73, 70, 70>>

WAVE == <<87, 65, 86, 69>>

FMT == <<102, 109, 116, 32>>

DATA == <<100, 97, 116, 97>>

EncodeWav(pcm16, sampleRate) ==
    RIFF \o Uint32LE(36 + Len(pcm16) * 2) \o WAVE \o FMT \o Uint32LE(16)
         \o Uint16LE(1) \o Uint16LE(1) \o Uint32LE(sampleRate)
         \o Uint32LE(sampleRate * 2) \o Uint16LE(2) \o Uint16LE(16)
         \o DATA \o Uint32LE(Len(pcm16) * 2) \o Int16sLE(pcm16)

\* resampleTo16k at the rates of Rates, where 1 / ratio is a whole number of
\* input samples and every read position is a whole index (frac = 0)
PhaseStep(inSr) == inSr \div TARGET_SR

OutLenInverse(n, inSr) == (n * inSr) \div TARGET_SR + 1

\* Math.floor(input.length * ratio + 1)
OutLen(n, inSr) == (n * TARGET_SR) \div inSr + 1

\* the iteration whose break ends the loop: the first i with
\* phase + (i + 1) / ratio >= input.length - 1, or the last one of the loop
LastWritten(n, inSr, phase) ==
    Min(OutLen(n, inSr) - 1,
        IF phase + PhaseStep(inSr) >= n - 1 THEN 0
        ELSE CeilDiv(n - 1 - phase, PhaseStep(inSr)) - 1)

\* the loop's phase on leaving it
PhaseOnExit(n, inSr, phase) ==
    phase + PhaseStep(inSr) * (LastWritten(n, inSr, phase) + 1)

\* resampleStateRef.current.phase after resampleTo16k on n samples
PhaseAfter(n, inSr, phase) ==
    IF inSr = TARGET_SR THEN phase
    ELSE PhaseOnExit(n, inSr, phase) - (n - 1)

\* input[idx] ?? input[input.length - 1] ?? 0, idx counted from 0
SampleAt(input, idx) ==
    IF idx >= 0 /\ idx < Len(input) THEN input[idx + 1]
    ELSE IF Len(input) > 0 THEN input[Len(input)] ELSE 0

ResampleTo16k(input, inSr, phase) ==
    IF inSr = TARGET_SR THEN input
    ELSE [i \in 1..OutLen(Len(input), inSr) |->
              IF i - 1 <= LastWritten(Len(input), inSr, phase)
              THEN SampleAt(input, phase + PhaseStep(inSr) * (i - 1))
              ELSE 0]

\* handleSegment: resampleStateRef.current.phase = 0
KeepPhase(phase) == phase

ResetPhase(phase) == 0

NoClip == [samples |-> <<>>, inSr |-> 0, segment16k |-> <<>>,
           pcm16 |-> <<>>, wav |-> <<>>]

\* handleSegment's clip for a segment handed over when the phase is `phase`
ClipOf(samples, inSr, phase) ==
    LET segment16k == ResampleTo16k(samples, inSr, ResetPhase(phase))
        pcm16 == FloatTo16BitPCM(segment16k)
    IN  [samples |-> samples, inSr |-> inSr, segment16k |-> segment16k,
         pcm16 |-> pcm16, wav |-> EncodeWav(pcm16, TARGET_SR)]

\* ------------------------------------------------------------ the pipeline
\* handleSegment up to its first await: the clip is built, the processing
\* indicator raised and the transcription request sent.
NoSegment == [ids |-> <<>>, samples |-> 0, sr |-> 0, how |-> "none"]

NewPipeEntry(seg, bound) ==
    [seg |-> seg, bound |-> bound, stage |-> "transcribing", gloss |-> <<>>,
     text |-> <<>>, glossReq |-> FALSE, sigmlReq |-> FALSE, nResults |-> 0,
     end |-> "none", at |-> "none", script |-> FALSE, during |-> "none",
     cleared |-> FALSE]

HandleSegment(ids, samples, sr, how, bound) ==
    /\ resamplePhase' = PhaseAfter(samples, sr, ResetPhase(resamplePhase))
    /\ pipe' = Append(pipe, NewPipeEntry(Len(pipe) + 1, bound))
    /\ out' = [ids |-> ids, samples |-> samples, sr |-> sr, how |-> how]
    /\ isProcessing' = TRUE
    /\ UNCHANGED errorMessage

\* finalizeSegment: takes the capture buffer, drops an empty or too short
\* one, hands the rest to handleSegment.
FinalizeSegment(frames, how) ==
    /\ captureBuf' = <<>>
    /\ IF frames = <<>> \/ TooShort(SumLen(frames), inputSampleRate)
       THEN /\ out' = NoSegment
            /\ UNCHANGED <<pipe, isProcessing, errorMessage,
                           resamplePhase>>
       ELSE HandleSegment(FrameIds(frames), SumLen(frames), inputSampleRate, how,
                          IF how = "flush" THEN currentSegment
                          ELSE boundSegment)

\* handleSegment to its first await on a segment of known contents
EncodeSegment(samples, inSr) ==
    /\ Len(pipe) < MaxSegs
    /\ encoded' = ClipOf(samples, inSr, resamplePhase)
    /\ HandleSegment(<<>>, Len(samples), inSr, "clip", boundSegment)
    /\ lastOp' = "clip"
    /\ UNCHANGED <<vadVars, deviceRate, pumpVars, pageVars, boundSegment, nClears,
                   displayVars>>

\* ------------------------------------------------------------ the recorder
\* handleToggle while not listening: start() runs up to await getUserMedia
StartClick ==
    /\ status = "idle"
    /\ nStarts < MaxStarts
    /\ nStarts' = nStarts + 1
    /\ starting' = starting + 1
    /\ errorMessage' = ""
    /\ lastOp' = "startClick"
    /\ boundSegment' = currentSegment
    /\ UNCHANGED <<deviceRate, pumpVars, encoded, resamplePhase, pageVars, nClears, displayVars>>
    /\ out' = NoSegment
    /\ UNCHANGED <<status, refStream, refPump, liveStreams, livePumps,
                   inputSampleRate, inSpeech, consecVoiced, consecUnvoiced,
                   noiseRms, samplesPerFrame, captureBuf, streamPos, voicedRun,
                   unvoicedRun, isProcessing, pipe>>

\* start() after getUserMedia resolved, to its end
StartGranted ==
    /\ starting > 0
    /\ starting' = starting - 1
    /\ refStream' = TRUE
    /\ liveStreams' = liveStreams + 1
    /\ refPump' = TRUE
    /\ livePumps' = livePumps + 1
    /\ inputSampleRate' = deviceRate
    /\ samplesPerFrame' = SamplesPerFrameOf(deviceRate)
    /\ status' = "listening"
    /\ voicedRun' = 0
    /\ lastOp' = "startGranted"
    /\ frameBuf' = <<>>
    /\ received' = IF livePumps = 0 THEN 0 ELSE received
    /\ framed' = IF livePumps = 0 THEN <<>> ELSE framed
    /\ UNCHANGED <<chunkBuf, offset, pumpPc>>
    /\ UNCHANGED <<deviceRate, encoded, resamplePhase, pageVars, boundSegment, nClears, displayVars>>
    /\ out' = NoSegment
    /\ UNCHANGED <<inSpeech, consecVoiced, consecUnvoiced, noiseRms,
                   captureBuf, streamPos, nStarts, unvoicedRun, isProcessing,
                   errorMessage, pipe>>

\* start() whose getUserMedia (late = FALSE) or worklet set-up (late = TRUE,
\* the stream and context are already stored) rejects
StartFailed(late) ==
    /\ starting > 0
    /\ starting' = starting - 1
    /\ refStream' = (refStream \/ late)
    /\ liveStreams' = IF late THEN liveStreams + 1 ELSE liveStreams
    /\ inputSampleRate' = IF late THEN deviceRate ELSE inputSampleRate
    /\ status' = "error"
    /\ errorMessage' = "start"
    /\ lastOp' = "startFailed"
    /\ UNCHANGED <<deviceRate, pumpVars, encoded, resamplePhase, pageVars, boundSegment, nClears, displayVars>>
    /\ out' = NoSegment
    /\ UNCHANGED <<refPump, livePumps, inSpeech, consecVoiced, consecUnvoiced,
                   noiseRms, samplesPerFrame, captureBuf, streamPos, nStarts,
                   voicedRun, unvoicedRun, isProcessing, pipe>>

\* flushCurrentSegment
FlushCurrentSegment ==
    IF inSpeech /\ Len(captureBuf) > 0
    THEN /\ inSpeech' = FALSE
         /\ FinalizeSegment(captureBuf, "flush")
    ELSE /\ out' = NoSegment
         /\ UNCHANGED <<inSpeech, captureBuf, pipe, isProcessing, errorMessage,
                        resamplePhase>>

\* handleToggle while listening: stop()
Stop ==
    /\ status = "listening"
    /\ Len(pipe) < MaxSegs
    /\ livePumps' = IF refPump THEN livePumps - 1 ELSE livePumps
    /\ liveStreams' = IF refStream THEN liveStreams - 1 ELSE liveStreams
    /\ refPump' = FALSE
    /\ refStream' = FALSE
    /\ FlushCurrentSegment
    /\ status' = "idle"
    /\ streamPos' = IF inSpeech THEN 0 ELSE streamPos
    /\ lastOp' = "stop"
    /\ UNCHANGED <<deviceRate, pumpVars, encoded, pageVars, boundSegment, nClears, displayVars>>
    /\ UNCHANGED <<starting, inputSampleRate, consecVoiced, consecUnvoiced,
                   noiseRms, samplesPerFrame, nStarts, voicedRun,
                   unvoicedRun>>

\* processFrame on a frame of level rms
Voiced(rms, noise) == GatePassed(rms) /\ AboveThreshold(rms, noise)

NoiseUpdateInSpeech(rms, noise, speaking) ==
    IF ~AboveThreshold(rms, noise)
    THEN (NOISE_ALPHA_PCT * noise + (100 - NOISE_ALPHA_PCT) * rms) \div 100
    ELSE noise

NoiseUpdate(rms, noise, speaking) ==
    IF ~speaking /\ ~AboveThreshold(rms, noise)
    THEN (NOISE_ALPHA_PCT * noise + (100 - NOISE_ALPHA_PCT) * rms) \div 100
    ELSE noise

StartsSpeech(speaking, cv) == ~speaking /\ cv >= START_TRIGGER_FRAMES

StopsSpeechLate(cu) == cu > STOP_TRIGGER_FRAMES

StopsSpeech(cu) == cu >= STOP_TRIGGER_FRAMES

BufferedIfVoiced(speaking, voiced) == speaking /\ voiced

BufferedAfterEntry(speaking, voiced) == speaking /\ inSpeech

\* if (vs.inSpeech) captureBufRef.current.push(frame.slice())
Buffered(speaking, voiced) == speaking

FrameStep(rms, n) ==
    LET voiced == Voiced(rms, noiseRms)
        cv == IF voiced THEN consecVoiced + 1 ELSE 0
        cu == IF voiced THEN 0 ELSE consecUnvoiced + 1
        enter == StartsSpeech(inSpeech, cv)
        speaking == inSpeech \/ enter
        frame == [id |-> streamPos + 1, len |-> n]
        buf == IF Buffered(speaking, voiced)
               THEN Append(IF enter THEN <<>> ELSE captureBuf, frame)
               ELSE captureBuf
        close == speaking /\ StopsSpeech(cu)
    IN  /\ livePumps > 0
        /\ Len(pipe) < MaxSegs
        /\ (~inSpeech /\ ~voiced) => unvoicedRun < MaxIdle
        /\ (inSpeech /\ voiced) => streamPos < MaxSpeech
        /\ streamPos' = IF close \/ (~speaking /\ ~voiced) THEN 0
                        ELSE streamPos + 1
        /\ noiseRms' = NoiseUpdate(rms, noiseRms, inSpeech)
        /\ consecVoiced' = cv
        /\ consecUnvoiced' = IF close THEN 0 ELSE cu
        /\ inSpeech' = (speaking /\ ~close)
        /\ IF close
           THEN FinalizeSegment(buf, "hangover")
           ELSE /\ captureBuf' = buf
                /\ out' = NoSegment
                /\ UNCHANGED <<pipe, isProcessing, errorMessage,
                               resamplePhase>>
        /\ voicedRun' = IF voiced THEN voicedRun + 1 ELSE 0
        /\ unvoicedRun' = IF voiced THEN 0 ELSE unvoicedRun + 1
        /\ lastOp' = "frame"
        /\ UNCHANGED <<deviceRate, encoded, pageVars, boundSegment, nClears, displayVars>>
        /\ UNCHANGED <<status, starting, refStream, refPump, liveStreams,
                       livePumps, inputSampleRate, samplesPerFrame, nStarts>>

\* the frame pump delivering one whole frame while nothing is carried
ProcessFrame(rms) ==
    /\ FrameStep(rms, samplesPerFrame)
    /\ UNCHANGED pumpVars

\* a.subarray(from, to), from and to counted from 0
Subarray(a, from, to) == SubSeq(a, from + 1, to)

ConcatFloat32(a, b) == a \o b

\* the next c samples of the capture, each named by its position
Chunk(c) == [i \in 1..c |-> received + i]

\* port.onmessage -> pushAndProcessFrames, up to its loop
OnMessage(c) ==
    /\ livePumps > 0
    /\ pumpPc = "idle"
    /\ received + c <= MaxFrames * samplesPerFrame
    /\ chunkBuf' = ConcatFloat32(frameBuf, Chunk(c))
    /\ offset' = 0
    /\ pumpPc' = "loop"
    /\ received' = received + c
    /\ lastOp' = "chunk"
    /\ out' = NoSegment
    /\ UNCHANGED <<frameBuf, framed>>
    /\ UNCHANGED <<vadVars, deviceRate, encoded, resamplePhase, pipeVars,
                   pageVars, boundSegment, nClears, displayVars>>

\* one turn of the while loop: processFrame on the next samplesPerFrame
\* samples of buf
LoopFrame(rms) ==
    /\ pumpPc = "loop"
    /\ offset + samplesPerFrame <= Len(chunkBuf)
    /\ LET frame == Subarray(chunkBuf, offset, offset + samplesPerFrame)
       IN  /\ FrameStep(rms, Len(frame))
           /\ framed' = Append(framed, frame)
    /\ offset' = offset + samplesPerFrame
    /\ UNCHANGED <<frameBuf, chunkBuf, pumpPc, received>>

\* the loop's exit: vs.frameBuf = buf.subarray(offset)
Carry ==
    /\ pumpPc = "loop"
    /\ ~(offset + samplesPerFrame <= Len(chunkBuf))
    /\ frameBuf' = Subarray(chunkBuf, offset, Len(chunkBuf))
    /\ chunkBuf' = <<>>
    /\ offset' = 0
    /\ pumpPc' = "idle"
    /\ lastOp' = "carry"
    /\ out' = NoSegment
    /\ UNCHANGED <<received, framed>>
    /\ UNCHANGED <<vadVars, deviceRate, encoded, resamplePhase, pipeVars,
                   pageVars, boundSegment, nClears, displayVars>>

\* ------------------------------------------------------------------ texts
\* text.trim() === ''
IsBlank(t) == \A i \in 1..Len(t) : t[i] = 0

\* a string is truthy unless it is empty
Truthy(t) == Len(t) > 0

\* a || b on strings
Or(a, b) == IF Truthy(a) THEN a ELSE b

\* text.trim().split(/\s+/).filter(w => w.length > 0).length
WordCount(t) ==
    Cardinality({i \in 1..Len(t) : t[i] # 0 /\ (i = 1 \/ t[i - 1] = 0)})

\* what the services may answer for segment k
TranscriptionTexts(k) == {<<>>, <<k>>}
GlossTexts(k) == {<<>>, <<0>>, <<k, 0, k>>}
SigmlTexts(k) == {<<>>, <<0>>, <<k>>}

\* ------------------------------------------------------------- the HomePage
Result(k, t, g, x, isNew) ==
    [seg |-> k, transcription |-> t, gloss |-> g, sigml |-> x,
     isNewSegment |-> isNew]

CompleteSegment(res, bound) ==
    [seg |-> res.seg,
     transcription |-> bound.transcription,
     gloss |-> Or(res.gloss, bound.gloss),
     sigml |-> res.sigml]

KeepSentences(res, bound) == sentences

\* [...prev, completeSegment]
AppendSentence(res, bound) == Append(sentences, CompleteSegment(res, bound))

CompletesInOrder(res) ==
    Truthy(res.sigml) /\ res.isNewSegment /\ res.seg = Len(sentences) + 1

\* if (result.sigml && result.isNewSegment)
Completes(res) == Truthy(res.sigml) /\ res.isNewSegment

\* handleVADUpdate
HandleVADUpdate(res, bound) ==
    LET cs1 == IF Truthy(res.transcription)
               THEN [transcription |-> res.transcription, gloss |-> <<>>]
               ELSE currentSegment
        cs2 == IF Truthy(res.gloss) THEN [cs1 EXCEPT !.gloss = res.gloss]
               ELSE cs1
        complete == Completes(res)
    IN  /\ currentSegment' = cs2
        /\ sentences' = IF complete THEN AppendSentence(res, bound) ELSE sentences
        /\ sentencesChanged' = (sentencesChanged \/ complete)

\* ---------------------------------------------------- handleSegment's stages
\* a segment handed to handleSegment by its caller
SubmitSegment(rebind) ==
    LET bound == IF rebind THEN currentSegment ELSE boundSegment
    IN  /\ Len(pipe) < MaxSegs
        /\ boundSegment' = bound
        /\ HandleSegment(Range(20), 20 * samplesPerFrame, inputSampleRate,
                         "call", bound)
        /\ UNCHANGED lastOp
        /\ UNCHANGED <<vadVars, deviceRate, pumpVars, encoded, pageVars, nClears, displayVars>>

Ended(i, how) ==
    [pipe EXCEPT ![i].stage = "done", ![i].end = how, ![i].at = pipe[i].stage,
                 ![i].gloss = <<>>, ![i].bound = EmptySegment,
                 ![i].during = status]

SegmentCatchAsStart(st) == "error"

\* the status after handleSegment's catch block, which calls setErrorMessage
\* only
SegmentCatch(st) == st

\* catch + finally
Throws(i) ==
    /\ pipe' = Ended(i, "error")
    /\ errorMessage' = "segment"
    /\ isProcessing' = FALSE
    /\ status' = SegmentCatch(status)
    /\ UNCHANGED pageVars

SkipsNothing(text) == FALSE

\* if (!transcription) return
AbortsOn(text) == ~Truthy(text)

\* transcribeWithFastAPI resolved with text
TranscribeReturns(i, text) ==
    LET res == Result(pipe[i].seg, text, <<>>, <<>>, FALSE)
    IN  /\ pipe[i].stage = "transcribing"
        /\ IF AbortsOn(text)
           THEN /\ pipe' = Ended(i, "empty")
                /\ isProcessing' = FALSE
                /\ UNCHANGED pageVars
           ELSE /\ HandleVADUpdate(res, pipe[i].bound)
                /\ pipe' = [pipe EXCEPT ![i].stage = "glossing",
                                        ![i].text = text,
                                        ![i].glossReq = TRUE,
                                        ![i].nResults = @ + 1]
                /\ UNCHANGED isProcessing
        /\ UNCHANGED errorMessage
        /\ UNCHANGED lastOp
        /\ UNCHANGED <<vadVars, deviceRate, pumpVars, encoded, resamplePhase, out, boundSegment, nClears,
                       displayVars>>

\* transcribeWithFastAPI rejected (network error or HTTP status not ok)
TranscribeThrows(i) ==
    /\ pipe[i].stage = "transcribing"
    /\ Throws(i)
    /\ UNCHANGED lastOp
    /\ UNCHANGED <<captureVars, deviceRate, pumpVars, encoded, resamplePhase, out, boundSegment, nClears,
                   displayVars>>

RequestsSigmlAlways(g) == TRUE

\* if (glossResult.gloss)
RequestsSigml(g) == Truthy(g)

\* /text-to-gloss answered ok with gloss g
GlossReturns(i, g) ==
    LET res == Result(pipe[i].seg, <<>>, <<>>, <<>>, TRUE)
    IN  /\ pipe[i].stage = "glossing"
        /\ IF RequestsSigml(g)
           THEN /\ pipe' = [pipe EXCEPT ![i].stage = "sigml", ![i].gloss = g,
                                        ![i].sigmlReq = TRUE]
                /\ UNCHANGED <<pageVars, isProcessing>>
           ELSE /\ HandleVADUpdate(res, pipe[i].bound)
                /\ pipe' = [Ended(i, "complete") EXCEPT
                                ![i].nResults = @ + 1]
                /\ isProcessing' = FALSE
        /\ UNCHANGED errorMessage
        /\ UNCHANGED lastOp
        /\ UNCHANGED <<vadVars, deviceRate, pumpVars, encoded, resamplePhase, out, boundSegment, nClears,
                       displayVars>>

\* /text-to-gloss failed (network error or HTTP status not ok)
GlossThrows(i) ==
    /\ pipe[i].stage = "glossing"
    /\ Throws(i)
    /\ UNCHANGED lastOp
    /\ UNCHANGED <<captureVars, deviceRate, pumpVars, encoded, resamplePhase, out, boundSegment, nClears,
                   displayVars>>

\* /gloss-to-sigml answered: ok with sigml x, or with a status not ok
SigmlReturns(i, ok, x) ==
    LET res == Result(pipe[i].seg, <<>>, pipe[i].gloss,
                      IF ok THEN x ELSE <<>>, TRUE)
    IN  /\ pipe[i].stage = "sigml"
        /\ HandleVADUpdate(res, pipe[i].bound)
        /\ pipe' = [Ended(i, IF ok THEN "complete" ELSE "degraded") EXCEPT
                        ![i].nResults = @ + 1,
                        ![i].script = ok /\ Truthy(x)]
        /\ isProcessing' = FALSE
        /\ UNCHANGED errorMessage
        /\ UNCHANGED lastOp
        /\ UNCHANGED <<vadVars, deviceRate, pumpVars, encoded, resamplePhase, out, boundSegment, nClears,
                       displayVars>>

\* the /gloss-to-sigml request itself failed (network error)
SigmlThrows(i) ==
    /\ pipe[i].stage = "sigml"
    /\ Throws(i)
    /\ UNCHANGED lastOp
    /\ UNCHANGED <<captureVars, deviceRate, pumpVars, encoded, resamplePhase, out, boundSegment, nClears,
                   displayVars>>

\* ----------------------------------------------------------- the SiGMLDisplay
\* the scheduler's refs and playback state as one value
Sched ==
    [queue |-> playbackQueue, playing |-> isPlayingRef, runs |-> runs,
     timers |-> nextTimers, gloss |-> currentlyPlayingGloss,
     word |-> currentWordIndex, dequeued |-> dequeued, playLog |-> playLog,
     errors |-> playErrors]

SetSched(S) ==
    /\ playbackQueue' = S.queue
    /\ isPlayingRef' = S.playing
    /\ runs' = S.runs
    /\ nextTimers' = S.timers
    /\ currentlyPlayingGloss' = S.gloss
    /\ currentWordIndex' = S.word
    /\ dequeued' = S.dequeued
    /\ playLog' = S.playLog
    /\ playErrors' = S.errors

PushReversed(q, items) ==
    q \o [i \in 1..Len(items) |-> items[Len(items) + 1 - i]]

\* q.push(...items)
Push(q, items) == q \o items

TakeLast(q) == [sentence |-> q[Len(q)], rest |-> SubSeq(q, 1, Len(q) - 1)]

\* playbackQueueRef.current.shift()
Shift(q) == [sentence |-> Head(q), rest |-> Tail(q)]

RetryNever(S) == S

StaysPlaying(S) == [S EXCEPT !.playing = TRUE]

\* after the catch block: the cleanup of playNextSentence and
\* setTimeout(playNextSentence, 100)
AfterCatch(S) ==
    [S EXCEPT !.gloss = <<>>, !.word = -1, !.playing = FALSE,
              !.timers = @ + 1]

\* setTimeout(playNextSentence, 50) after an entry without a script
Retry(S) == [S EXCEPT !.timers = @ + 1]

\* estimateAnimationDuration for a gloss of n words, in ms
EstimateAnimationDuration(n) == Max(1000, n * 800 + 200)

\* wordDuration as the delay of setTimeout, which takes whole ms; n > 0 (with
\* no words it is Infinity and no timer is set with it)
WordDuration(n) == Max(600, EstimateAnimationDuration(n) \div n)

\* playNextSentence, to its first await or its return; throws: whether
\* CWASA.playSiGMLText throws
PlayNextSentence(S, throws) ==
    IF S.playing \/ S.queue = <<>> THEN S
    ELSE LET sentence == Shift(S.queue).sentence
             S1 == [S EXCEPT !.queue = Shift(S.queue).rest,
                             !.dequeued = Append(@, sentence.seg)]
             n == WordCount(sentence.gloss)
         IN  IF IsBlank(sentence.sigml)
             THEN Retry(S1)
             ELSE IF throws
             THEN AfterCatch([S1 EXCEPT !.playLog = Append(@, sentence.seg),
                                        !.errors = @ + 1])
             ELSE [S1 EXCEPT !.playLog = Append(@, sentence.seg),
                             !.gloss = sentence.gloss,
                             !.word = IF n > 0 THEN 0 ELSE @,
                             !.playing = TRUE,
                             !.runs = Append(@, [seg |-> sentence.seg,
                                                 words |-> n, pc |-> 0,
                                                 held |-> 0])]

NotScheduled(timers) == timers

\* setTimeout(playNextSentence, 100) at the end of playNextSentence
ScheduleNext(timers) == timers + 1

RemoveAt(q, i) == SubSeq(q, 1, i - 1) \o SubSeq(q, i + 1, Len(q))

\* a timer a playNextSentence call awaits fires: the next word, the trailing
\* pause, or the end of the call (pc = words is the trailing pause); held is
\* the least time, in ms, the call has waited so far
RunTimer(i) ==
    LET r == runs[i]
    IN  /\ i \in 1..Len(runs)
        /\ IF r.pc < r.words
           THEN /\ runs' = [runs EXCEPT ![i].pc = r.pc + 1,
                                        ![i].held = @ + WordDuration(r.words)]
                /\ currentWordIndex' =
                       IF r.pc + 1 < r.words THEN r.pc + 1 ELSE currentWordIndex
                /\ UNCHANGED <<currentlyPlayingGloss, isPlayingRef, nextTimers>>
           ELSE /\ runs' = RemoveAt(runs, i)
                /\ currentlyPlayingGloss' = <<>>
                /\ currentWordIndex' = -1
                /\ isPlayingRef' = FALSE
                /\ nextTimers' = ScheduleNext(nextTimers)
        /\ UNCHANGED lastOp
        /\ UNCHANGED <<vadVars, deviceRate, pumpVars, encoded, resamplePhase, out, pipeVars, pageVars,
                       boundSegment, nClears, cwasaLoaded, playedSentences,
                       rLen, rLoaded, scriptStage, initOnceRef, initCalls,
                       pendingSentences, playbackQueue, inserted, dequeued,
                       playLog,
                       playErrors>>

\* a setTimeout(playNextSentence, ...) callback runs
NextTimer(throws) ==
    /\ nextTimers > 0
    /\ SetSched(PlayNextSentence([Sched EXCEPT !.timers = @ - 1], throws))
    /\ UNCHANGED lastOp
    /\ UNCHANGED <<vadVars, deviceRate, pumpVars, encoded, resamplePhase, out, pipeVars, pageVars, boundSegment,
                   nClears, cwasaLoaded, playedSentences, rLen, rLoaded,
                   scriptStage, initOnceRef, initCalls, pendingSentences,
                   inserted>>

\* js.onload / js.onerror of the injected CWASA script
ScriptLoaded ==
    /\ scriptStage = "loading"
    /\ scriptStage' = "t250"
    /\ UNCHANGED lastOp
    /\ UNCHANGED <<vadVars, deviceRate, pumpVars, encoded, resamplePhase, out, pipeVars, pageVars, boundSegment,
                   nClears, cwasaLoaded, playedSentences, rLen, rLoaded,
                   initOnceRef, initCalls, pendingSentences, playbackQueue,
                   isPlayingRef, currentlyPlayingGloss, currentWordIndex,
                   runs, nextTimers, inserted, dequeued, playLog,
                   playErrors>>

ScriptError ==
    /\ scriptStage = "loading"
    /\ scriptStage' = "failed"
    /\ UNCHANGED lastOp
    /\ UNCHANGED <<vadVars, deviceRate, pumpVars, encoded, resamplePhase, out, pipeVars, pageVars, boundSegment,
                   nClears, cwasaLoaded, playedSentences, rLen, rLoaded,
                   initOnceRef, initCalls, pendingSentences, playbackQueue,
                   isPlayingRef, currentlyPlayingGloss, currentWordIndex,
                   runs, nextTimers, inserted, dequeued, playLog,
                   playErrors>>

\* doInit; outcome: "ok", "absent" (window.CWASA missing) or "throws"
\* (CWASA.init throws)
DoInit(outcome, throws) ==
    IF outcome = "ok"
    THEN /\ initOnceRef' = TRUE
         /\ initCalls' = initCalls + 1
         /\ cwasaLoaded' = TRUE
         /\ IF Len(pendingSentences) > 0
            THEN /\ pendingSentences' = <<>>
                 /\ SetSched(PlayNextSentence(
                        [Sched EXCEPT !.queue = Push(@, pendingSentences)], throws))
            ELSE UNCHANGED <<pendingSentences, playbackQueue, isPlayingRef,
                             currentlyPlayingGloss, currentWordIndex, runs,
                             nextTimers, dequeued, playLog,
                             playErrors>>
    ELSE UNCHANGED <<initOnceRef, initCalls, cwasaLoaded, pendingSentences,
                     playbackQueue, isPlayingRef, currentlyPlayingGloss,
                     currentWordIndex, runs, nextTimers, dequeued, playLog,
                     playErrors>>

\* the 250 ms timer set by js.onload
Timer250(container, outcome, throws) ==
    /\ scriptStage = "t250"
    /\ IF container
       THEN /\ DoInit(outcome, throws)
            /\ scriptStage' = "done"
       ELSE /\ scriptStage' = "t600"
            /\ UNCHANGED <<initOnceRef, initCalls, cwasaLoaded, pendingSentences,
                           playbackQueue, isPlayingRef, currentlyPlayingGloss,
                           currentWordIndex, runs, nextTimers, dequeued,
                           playLog,
                           playErrors>>
    /\ UNCHANGED lastOp
    /\ UNCHANGED <<vadVars, deviceRate, pumpVars, encoded, resamplePhase, out, pipeVars, pageVars, boundSegment,
                   nClears, playedSentences, rLen, rLoaded, inserted>>

\* the 600 ms retry timer
Timer600(container, outcome, throws) ==
    /\ scriptStage = "t600"
    /\ IF container
       THEN /\ DoInit(outcome, throws)
            /\ scriptStage' = "done"
       ELSE /\ scriptStage' = "failed"
            /\ UNCHANGED <<initOnceRef, initCalls, cwasaLoaded, pendingSentences,
                           playbackQueue, isPlayingRef, currentlyPlayingGloss,
                           currentWordIndex, runs, nextTimers, dequeued,
                           playLog,
                           playErrors>>
    /\ UNCHANGED lastOp
    /\ UNCHANGED <<vadVars, deviceRate, pumpVars, encoded, resamplePhase, out, pipeVars, pageVars, boundSegment,
                   nClears, playedSentences, rLen, rLoaded, inserted>>

\* the mount effect running again (its dependencies isVisible or
\* selectedAvatar changed, or React ran it again): load() with the link and
\* script elements already in the document.  window.CWASA is defined once
\* the script has run.
MountEffect(container, outcome, throws) ==
    /\ IF ~initOnceRef /\ container /\ scriptStage # "loading"
          /\ outcome # "absent"
       THEN DoInit(outcome, throws)
       ELSE UNCHANGED <<initOnceRef, initCalls, cwasaLoaded, pendingSentences,
                        playbackQueue, isPlayingRef, currentlyPlayingGloss,
                        currentWordIndex, runs, nextTimers, dequeued,
                        playLog,
                        playErrors>>
    /\ UNCHANGED lastOp
    /\ UNCHANGED <<vadVars, deviceRate, pumpVars, encoded, resamplePhase, out, pipeVars, pageVars, boundSegment,
                   nClears, playedSentences, rLen, rLoaded, scriptStage,
                   inserted>>

Segs(q) == [i \in 1..Len(q) |-> q[i].seg]

ResetKeepsQueue(S) == [S EXCEPT !.gloss = <<>>, !.word = -1, !.playing = FALSE]

\* the reset effect's assignments to the scheduler (sentences.length === 0)
Reset(S) ==
    [S EXCEPT !.queue = <<>>, !.gloss = <<>>, !.word = -1, !.playing = FALSE]

KeepPlayed(played) == played

\* the reset effect's setPlayedSentences(0)
ResetPlayed(played) == 0

\* a commit of SiGMLDisplay rendering the list sents, with the effects whose
\* dependencies changed: the sentence playback effect, then the reset effect.
\* The commit that follows setPlayedSentences alone reruns the playback
\* effect with sentences.length <= playedSentences, which returns at once: it
\* is a stuttering step and has no action.  ready is cwasaLoaded: isVisible
\* is always true and window.CWASA is present once doInit succeeded.
Commit(sents, throws) ==
    LET n == Len(sents)
        fresh == SubSeq(sents, playedSentences + 1, n)
        hasNew == n > playedSentences
        queues == hasNew /\ ~cwasaLoaded
        plays == hasNew /\ cwasaLoaded
        S1 == [Sched EXCEPT !.queue = Push(@, fresh)]
        S2 == IF ~plays THEN Sched
              ELSE IF S1.playing THEN S1 ELSE PlayNextSentence(S1, throws)
        resets == n # rLen /\ n = 0
        S3 == IF resets THEN Reset(S2) ELSE S2
    IN  /\ SetSched(S3)
        /\ pendingSentences' = IF resets THEN <<>>
                               ELSE IF queues THEN Push(pendingSentences, fresh)
                               ELSE pendingSentences
        /\ inserted' = IF hasNew THEN inserted \o Segs(fresh) ELSE inserted
        /\ playedSentences' = IF resets THEN ResetPlayed(playedSentences)
                              ELSE IF hasNew THEN n ELSE playedSentences
        /\ rLen' = n
        /\ rLoaded' = cwasaLoaded
        /\ sentencesChanged' = FALSE
        /\ UNCHANGED <<cwasaLoaded, scriptStage, initOnceRef, initCalls>>

\* the commit React schedules after a state update made outside an event
\* handler (onResult from a resolved request, setCwasaLoaded from a timer)
Render(throws) ==
    /\ sentencesChanged \/ cwasaLoaded # rLoaded
    /\ Commit(sentences, throws)
    /\ UNCHANGED lastOp
    /\ UNCHANGED <<vadVars, deviceRate, pumpVars, encoded, resamplePhase, out, pipeVars, sentences,
                   currentSegment, boundSegment, nClears>>

\* handleClearResults, from the Clear button (disabled in status error).
\* The updates of a click are rendered and their effects run before the
\* click event ends, so the commit is part of the step.
\* handleClearResults; calls is the record of the handleSegment calls, which
\* the click leaves as they are
ClearPage(calls) ==
    /\ status # "error"
    /\ nClears < MaxClears
    /\ nClears' = nClears + 1
    /\ sentences' = <<>>
    /\ currentSegment' = EmptySegment
    /\ Commit(<<>>, FALSE)
    /\ pipe' = calls
    /\ UNCHANGED lastOp
    /\ UNCHANGED <<vadVars, deviceRate, pumpVars, encoded, resamplePhase, out, isProcessing,
                   errorMessage, boundSegment>>

ClearClick == ClearPage(pipe)

InitPage ==
    /\ sentences = <<>> /\ currentSegment = EmptySegment
    /\ boundSegment = EmptySegment /\ nClears = 0
    /\ sentencesChanged = FALSE
    /\ cwasaLoaded = FALSE /\ playedSentences = 0
    /\ rLen = 0 /\ rLoaded = FALSE
    /\ scriptStage = "loading"
    /\ initOnceRef = FALSE /\ initCalls = 0
    /\ pendingSentences = <<>> /\ playbackQueue = <<>>
    /\ isPlayingRef = FALSE
    /\ currentlyPlayingGloss = <<>> /\ currentWordIndex = -1
    /\ runs = <<>> /\ nextTimers = 0
    /\ inserted = <<>> /\ dequeued = <<>> /\ playLog = <<>>
    /\ playErrors = 0

\* ------------------------------------------------------------------- specs
InitVAD ==
    /\ status = "idle" /\ starting = 0
    /\ refStream = FALSE /\ refPump = FALSE
    /\ liveStreams = 0 /\ livePumps = 0
    /\ inputSampleRate = 48000
    /\ inSpeech = FALSE /\ consecVoiced = 0 /\ consecUnvoiced = 0
    /\ noiseRms = InitNoiseRms
    /\ samplesPerFrame = 480
    /\ captureBuf = <<>>
    /\ streamPos = 0 /\ nStarts = 0
    /\ voicedRun = 0 /\ unvoicedRun = 0

InitPump ==
    /\ frameBuf = <<>> /\ chunkBuf = <<>> /\ offset = 0
    /\ pumpPc = "idle"
    /\ received = 0 /\ framed = <<>>

Init ==
    /\ InitVAD
    /\ InitPump
    /\ isProcessing = FALSE /\ errorMessage = ""
    /\ pipe = <<>>
    /\ deviceRate \in Rates
    /\ resamplePhase = 0 /\ encoded = NoClip
    /\ out = NoSegment
    /\ lastOp = "init"
    /\ InitPage

NextVAD ==
    \/ StartClick
    \/ StartGranted
    \/ \E late \in BOOLEAN : StartFailed(late)
    \/ Stop
    \/ \E rms \in Levels : ProcessFrame(rms)

SpecVAD == Init /\ [][NextVAD]_vars

InitCalm ==
    /\ Init
    /\ deviceRate = 48000

Outcomes == {"ok", "absent", "throws"}

\* the stages of the handleSegment calls in flight
Pipeline ==
    \E i \in 1..Len(pipe) :
        \/ \E t \in TranscriptionTexts(pipe[i].seg) : TranscribeReturns(i, t)
        \/ TranscribeThrows(i)
        \/ \E g \in GlossTexts(pipe[i].seg) : GlossReturns(i, g)
        \/ GlossThrows(i)
        \/ \E ok \in BOOLEAN, x \in SigmlTexts(pipe[i].seg) :
               SigmlReturns(i, ok, x)
        \/ SigmlThrows(i)

\* the commits, script events and timers of SiGMLDisplay
Player ==
    \/ \E throws \in BOOLEAN : Render(throws)
    \/ ScriptLoaded
    \/ ScriptError
    \/ \E c \in BOOLEAN, o \in Outcomes, throws \in BOOLEAN :
         \/ Timer250(c, o, throws)
         \/ Timer600(c, o, throws)
    \/ \E i \in 1..Len(runs) : RunTimer(i)
    \/ \E throws \in BOOLEAN : NextTimer(throws)

Next ==
    \/ \E rebind \in BOOLEAN : SubmitSegment(rebind)
    \/ Pipeline
    \/ ClearClick
    \/ Player

Spec == InitCalm /\ [][Next]_vars

\* the pipeline and the page alone, the display left as mounted
NextPipeline ==
    \/ \E rebind \in BOOLEAN : SubmitSegment(rebind)
    \/ Pipeline
    \/ ClearClick

SpecPipeline == InitCalm /\ [][NextPipeline]_vars

AllDone == \A i \in 1..Len(pipe) : pipe[i].stage = "done"

\* one recording session whose segments are far enough apart that each
\* one's chain ends before the next segment closes
NextSerial ==
    \/ AllDone /\ SubmitSegment(FALSE)
    \/ Pipeline
    \/ ClearClick
    \/ Player

SpecSerial == InitCalm /\ [][NextSerial]_vars

\* SiGMLDisplay with its mount effect running again at any time
NextMount ==
    \/ \E c \in BOOLEAN, o \in Outcomes, throws \in BOOLEAN :
           MountEffect(c, o, throws)
    \/ NextSerial

SpecMount == InitCalm /\ [][NextMount]_vars

\* one recorder with its pipeline and the page: frames arrive while no
\* request is in flight, the Stop and Start clicks come at any time
NextSession ==
    \/ nStarts < MaxSessions /\ StartClick
    \/ StartGranted
    \/ Stop
    \/ /\ AllDone
       /\ Len(pipe) < MaxFlight
       /\ \E rms \in Levels : ProcessFrame(rms)
    \/ Pipeline
    \/ \E throws \in BOOLEAN : Render(throws)

SpecSession == InitCalm /\ [][NextSession]_vars

\* a handleSegment call that ended with a request failed: in the catch
\* block, or with /gloss-to-sigml answering a status that is not ok
Failed(e) == e.end \in {"error", "degraded"}

NotFailed == SelectSeq(pipe, LAMBDA e : ~Failed(e))

\* the requests that fail, and the answers that lead to the next request
Faults ==
    \E i \in 1..Len(pipe) :
        \/ TranscribeThrows(i)
        \/ TranscribeReturns(i, <<pipe[i].seg>>)
        \/ GlossThrows(i)
        \/ GlossReturns(i, <<pipe[i].seg>>)
        \/ SigmlThrows(i)
        \/ SigmlReturns(i, FALSE, <<>>)

\* one recorder whose requests fail, each segment's call ending before the
\* next frame
NextFaults ==
    \/ nStarts < MaxSessions /\ StartClick
    \/ StartGranted
    \/ Stop
    \/ /\ AllDone
       /\ Len(NotFailed) < MaxFlight
       /\ \E rms \in Levels : ProcessFrame(rms)
    \/ Faults

SpecFaults == InitCalm /\ [][NextFaults]_vars

\* the timers of the player fire: a pending setTimeout callback runs
TimersFire ==
    /\ WF_vars(\E i \in 1..Len(runs) : RunTimer(i))
    /\ WF_vars(\E throws \in BOOLEAN : NextTimer(throws))

SpecSerialFair == SpecSerial /\ TimersFire

\* the requests of call i answered ok with content
Answers(i) ==
    \/ TranscribeReturns(i, <<pipe[i].seg>>)
    \/ GlossReturns(i, <<pipe[i].seg, 0, pipe[i].seg>>)
    \/ SigmlReturns(i, TRUE, <<pipe[i].seg>>)

\* the first call's last request never returns; its earlier ones may
Hangs ==
    \/ TranscribeReturns(1, <<pipe[1].seg>>)
    \/ GlossReturns(1, <<pipe[1].seg, 0, pipe[1].seg>>)

Later == 2..Len(pipe)

\* a session whose first segment's call hangs while the segments after it
\* come one at a time and are answered
NextHang ==
    \/ (\A i \in Later : pipe[i].stage = "done") /\ SubmitSegment(FALSE)
    \/ Len(pipe) > 0 /\ Hangs
    \/ \E i \in Later : Answers(i)
    \/ Player

\* the requests of the later segments are answered, the commits React
\* schedules run, the script element loads or fails, the timers fire
HangFair ==
    /\ WF_vars(\E i \in Later : Answers(i))
    /\ WF_vars(\E throws \in BOOLEAN : Render(throws))
    /\ WF_vars(ScriptLoaded \/ ScriptError)
    /\ WF_vars(\E c \in BOOLEAN, o \in Outcomes, throws \in BOOLEAN :
                   Timer250(c, o, throws) \/ Timer600(c, o, throws))
    /\ TimersFire

SpecHang == InitCalm /\ [][NextHang]_vars /\ HangFair

\* segments of every content and rate handed to handleSegment in turn
NextClip == \E samples \in Segments, inSr \in Rates : EncodeSegment(samples, inSr)

SpecClip == InitCalm /\ [][NextClip]_vars

\* ------------------------------------------------------- the segmenter's claims
\* C4: in a session that starts in Silence (one frame source), processFrame
\* enters Speaking exactly on the START_TRIGGER_FRAMES-th consecutive voiced
\* frame of the session's stream, and on no other frame.
C4_EntryOnNthVoicedFrame ==
    [][(lastOp' = "frame" /\ status = "listening" /\ livePumps = 1
          /\ ~inSpeech)
         => (inSpeech' <=> voicedRun' = START_TRIGGER_FRAMES)]_vars

\* C5: a segment closed by hangover starts with the first of the voiced
\* frames that triggered it and holds every frame from there on.
C5_SegmentHoldsTriggeringFrames ==
    out.how = "hangover" => out.ids = Range(Len(out.ids))

\* C6: while Speaking, a frame closes the segment exactly when it is the
\* STOP_TRIGGER_FRAMES-th consecutive unvoiced frame; a voiced frame clears
\* the unvoiced count and keeps the segment open.
C6_CloseOnNthUnvoicedFrame ==
    [][(lastOp' = "frame" /\ inSpeech)
         => /\ ~inSpeech' <=> unvoicedRun' = STOP_TRIGGER_FRAMES
            /\ unvoicedRun' = 0 => (consecUnvoiced' = 0 /\ inSpeech')
            /\ ~inSpeech' => (captureBuf' = <<>> /\ out'.how = "hangover")]_vars

C6_Witness ==
    /\ lastOp = "frame" /\ ~inSpeech
    /\ out.how = "hangover"
    /\ unvoicedRun = STOP_TRIGGER_FRAMES

\* C7: a segment closed by hangover is handed on only if its speech part
\* (from the first triggering frame to the last voiced frame) lasts at
\* least MIN_VOICE_MS.
C7_ShortBurstNotEmitted ==
    out.how = "hangover"
        => (Len(out.ids) + 1 - STOP_TRIGGER_FRAMES) * HOP_MS >= MIN_VOICE_MS

C1_PlayedInSegmentOrder ==
    \A i, j \in 1..Len(playLog) : i < j => playLog[i] < playLog[j]

\* C2, as claimed: at no time are two playNextSentence calls past the
\* isPlayingRef guard and not yet through their hold.
C2_OneActivePlayback == Len(runs) <= 1

Pos(q, x) == CHOOSE i \in 1..Len(q) : q[i] = x

Waiting == Segs(pendingSentences \o playbackQueue)

C9_FailedSegmentStillAppended ==
    [][\A i \in 1..Len(pipe) :
         (pipe[i].stage \in {"glossing", "sigml"}
            /\ pipe'[i].end \in {"error", "degraded"})
         => /\ Len(sentences') = Len(sentences) + 1
            /\ sentences'[Len(sentences')].seg = pipe[i].seg
            /\ sentences'[Len(sentences')].sigml = <<>>]_vars

\* C10: a segment whose transcription came back empty or failed is at the
\* end of its chain: no gloss request and no script request was made for it
\* and onResult was not called for it.
C10_NoTextNoRequests ==
    \A i \in 1..Len(pipe) :
        (pipe[i].stage # "transcribing" /\ ~Truthy(pipe[i].text))
        => /\ pipe[i].stage = "done"
           /\ pipe[i].end \in {"empty", "error"}
           /\ ~pipe[i].glossReq /\ ~pipe[i].sigmlReq
           /\ pipe[i].nResults = 0

C10_Witness ==
    \E i, j \in 1..Len(pipe) :
        /\ pipe[i].end = "empty" /\ pipe[i].nResults = 0
        /\ pipe[j].end = "error" /\ pipe[j].at = "transcribing"
        /\ sentences = <<>> /\ currentSegment = EmptySegment

Known == playbackQueue \o pendingSentences \o sentences'

\* the step takes an entry off the queue and that entry's script is blank
TakesBlank ==
    /\ Len(dequeued') = Len(dequeued) + 1
    /\ \E i \in 1..Len(Known) :
          /\ Known[i].seg = dequeued'[Len(dequeued')]
          /\ IsBlank(Known[i].sigml)

\* C12: the step that takes an entry with a blank script off the queue does
\* not call the renderer, starts no run and leaves isPlayingRef false, and
\* it leaves a playNextSentence call scheduled; with the timers firing, a
\* queue that holds entries always drains (each entry is taken in its turn,
\* or cleared).
C12_BlankEntrySkipped ==
    /\ [][TakesBlank => /\ playLog' = playLog /\ runs' = runs
                        /\ ~isPlayingRef /\ ~isPlayingRef'
                        /\ nextTimers' > 0]_vars
    /\ (playbackQueue # <<>>) ~> (playbackQueue = <<>>)

C12_Witness ==
    /\ Len(dequeued) = 2 /\ Len(playLog) = 1
    /\ playLog[1] = dequeued[2]
    /\ playbackQueue = <<>>

\* C13: the Clear click leaves the pending buffer and the play queue empty
\* and isPlayingRef false; from such a state a step that inserts no new
\* sentence keeps it so and passes nothing to the renderer; and an entry that
\* was inserted and then dropped unplayed is never taken from the queue or
\* passed to the renderer afterwards.
Quiet == pendingSentences = <<>> /\ playbackQueue = <<>> /\ ~isPlayingRef

Dropped ==
    {inserted[i] : i \in 1..Len(inserted)} \
        ({dequeued[i] : i \in 1..Len(dequeued)} \cup
         {playbackQueue[i].seg : i \in 1..Len(playbackQueue)} \cup
         {pendingSentences[i].seg : i \in 1..Len(pendingSentences)})

C13_ClearLeavesSchedulerIdle ==
    [][/\ nClears' # nClears => Quiet'
       /\ (Quiet /\ inserted' = inserted) => (Quiet' /\ playLog' = playLog)
       /\ \A k \in Dropped :
              /\ \A i \in 1..Len(dequeued') : dequeued'[i] # k
              /\ \A i \in 1..Len(playLog') : playLog'[i] # k]_vars

\* C13's case: the Clear click came while one entry was being played and a
\* second was queued behind it; the queue is empty, the second entry was
\* never taken and the earlier call is still in its hold.
C13_Witness ==
    /\ nClears = 1 /\ Len(inserted) = 2 /\ dequeued = <<inserted[1]>>
    /\ Quiet /\ Len(runs) = 1 /\ sentences = <<>>

\* C14: stop() leaves the handleSegment calls in flight as they are, and a
\* call that ends while the recorder is idle with every stage answered and a
\* non-empty script has made both onResult calls, its sentence is in the
\* page's list and, once SiGMLDisplay has committed, among the sentences
\* inserted for playback.
C14_StopKeepsRequests ==
    /\ [][(status = "listening" /\ status' = "idle") =>
              SubSeq(pipe', 1, Len(pipe)) = pipe]_vars
    /\ [](\A i \in 1..Len(pipe) :
             (pipe[i].script /\ pipe[i].during = "idle") =>
                 /\ pipe[i].nResults = 2
                 /\ \E j \in 1..Len(sentences) : sentences[j].seg = pipe[i].seg
                 /\ ~sentencesChanged =>
                        \E j \in 1..Len(inserted) : inserted[j] = pipe[i].seg)

\* C14's case: the only session's segment was closed by hangover, stop()
\* came (flushing nothing) while its requests were in flight, and the call
\* ended afterwards with a script, which was inserted for playback.
C14_Witness ==
    /\ nStarts = 1 /\ status = "idle" /\ lastOp = "stop" /\ out = NoSegment
    /\ Len(pipe) = 1 /\ pipe[1].script /\ pipe[1].during = "idle"
    /\ inserted = <<1>>

\* C15: the stop step leaves no frame pump attached and no media stream
\* live, has handed a segment in progress to handleSegment, and is not
\* followed by a processFrame call before the next start.
C15_StopReleasesCapture ==
    [][/\ lastOp' = "stop" =>
              /\ livePumps' = 0 /\ liveStreams' = 0
              /\ ~refPump' /\ ~refStream'
              /\ ~inSpeech' /\ captureBuf' = <<>>
       /\ (lastOp = "stop" /\ starting = 0) => lastOp' # "frame"]_vars

\* C16: CWASA.init returns at most once, whatever the order of mount effect
\* runs, script events and timers.
C16_InitAtMostOnce == initCalls <= 1

\* the object handleSegment passes to onResult: transcription, gloss, sigml
\* and isNewSegment, and no field that names the segment
Delivered(res) ==
    [transcription |-> res.transcription, gloss |-> res.gloss,
     sigml |-> res.sigml, isNewSegment |-> res.isNewSegment]

\* the objects the final onResult call of call i may pass
FinalResults(i) ==
    {Delivered(Result(pipe[i].seg, <<>>, pipe[i].gloss, x, TRUE)) :
         x \in SigmlTexts(pipe[i].seg)}

\* C17: the handleSegment calls are numbered in increasing order without
\* reuse, and the result a call delivers carries its number: no object
\* that one call may deliver can also be delivered by another call.
C17_ResultsCarrySegmentNumber ==
    /\ \A i, j \in 1..Len(pipe) : i < j => pipe[i].seg < pipe[j].seg
    /\ \A i, j \in 1..Len(pipe) :
           (i # j /\ pipe[i].stage = "sigml" /\ pipe[j].stage = "sigml") =>
               FinalResults(i) \cap FinalResults(j) = {}

\* C18: when start() completes with no other frame pump attached, so that
\* the next frame is the first of a session, the VAD is in Silence with both
\* counters at 0 and the noise floor at its initial value.
C18_VADResetAtStart ==
    [][(lastOp' = "startGranted" /\ livePumps = 0) =>
           /\ ~inSpeech'
           /\ consecVoiced' = 0 /\ consecUnvoiced' = 0
           /\ noiseRms' = InitNoiseRms]_vars

\* C19: a start() call that fails leaves status error and holds nothing it
\* acquired: no stream or context more than before the call is live or
\* referenced, and no frame pump more is attached.
C19_FailedStartHoldsNothing ==
    [][lastOp' = "startFailed" =>
           /\ status' = "error"
           /\ liveStreams' = liveStreams /\ refStream' = refStream
           /\ livePumps' = livePumps /\ refPump' = refPump]_vars

\* C20: the step in which a handleSegment call ends with a failed request
\* leaves the recorder's status, the VAD state, the capture buffer and the
\* capture resources as they were, and the status never becomes error
\* through the pipeline.
FailureStep ==
    \E i \in 1..Len(pipe) :
        pipe[i].stage # "done" /\ pipe'[i].stage = "done" /\ Failed(pipe'[i])

C20_PipelineFailureLeavesRecorder ==
    /\ [][FailureStep => (status' = status /\ captureVars' = captureVars)]_vars
    /\ [](status # "error")

\* C20's case: the first segment's call failed while the recorder was
\* listening, frames were processed afterwards and closed a second segment
\* by hangover, which was handed to handleSegment.
C20_Witness ==
    /\ Len(pipe) = 2 /\ Failed(pipe[1]) /\ pipe[1].during = "listening"
    /\ status = "listening" /\ lastOp = "frame" /\ out.how = "hangover"

\* C21: the step in which CWASA.playSiGMLText throws leaves isPlayingRef
\* false, starts no hold, keeps the entries behind the failed one in the
\* queue and leaves a playNextSentence call scheduled; and with the timers
\* firing, a scheduler left idle with entries waiting after a failed play
\* call starts a play call again (or the queue empties by skips or a clear).
PlayThrows == playErrors' = playErrors + 1

C21_PlayErrorCaughtPerEntry ==
    /\ [][PlayThrows =>
              /\ ~isPlayingRef' /\ Len(runs') = Len(runs)
              /\ nextTimers' > 0
              /\ Len(playLog') = Len(playLog) + 1
              /\ Len(dequeued') = Len(dequeued) + 1]_vars
    /\ (playErrors > 0 /\ ~isPlayingRef /\ playbackQueue # <<>>)
           ~> (isPlayingRef \/ playbackQueue = <<>>)

\* C21's case: the play call of the first entry threw, and the entry behind
\* it was then passed to the renderer and is in its hold.
C21_Witness ==
    /\ playErrors = 1 /\ nClears = 0
    /\ Len(playLog) = 2 /\ Len(runs) = 1 /\ runs[1].seg = playLog[2]

\* C22: a processFrame step on a frame at or below the gate level counts
\* the frame as unvoiced whatever the noise floor is: consecVoiced is 0
\* after it, it does not enter Speaking, and out of Silence it hands no
\* segment to handleSegment; and a session that starts with no other frame
\* pump attached starts in Silence.
C22_GatedFrameNeverVoiced ==
    [][/\ \A rms \in Levels :
              (rms <= GateRms /\ ProcessFrame(rms)) =>
                  /\ consecVoiced' = 0 /\ voicedRun' = 0
                  /\ consecUnvoiced' > 0 \/ out' # NoSegment
                  /\ inSpeech' => inSpeech
                  /\ ~inSpeech => out' = NoSegment
       /\ (lastOp' = "startGranted" /\ livePumps = 0) => ~inSpeech']_vars

\* C22's case: the only frame of the session so far had a level above the
\* adaptive threshold (the noise floor was not updated) and under the gate,
\* and was counted unvoiced.
C22_Witness ==
    /\ lastOp = "frame" /\ nStarts = 1 /\ livePumps = 1
    /\ noiseRms = InitNoiseRms /\ AboveThreshold(GateRms, noiseRms)
    /\ consecUnvoiced = 1 /\ consecVoiced = 0 /\ ~inSpeech

\* ------------------------------------------------------------ the clip's claims
\* a little-endian unsigned field of k bytes at byte offset off of a file
RECURSIVE ReadUint(_, _, _)
ReadUint(w, off, k) ==
    IF k = 0 THEN 0 ELSE w[off + 1] + 256 * ReadUint(w, off + 1, k - 1)

ReadInt16(w, off) ==
    IF ReadUint(w, off, 2) >= 32768 THEN ReadUint(w, off, 2) - 65536
    ELSE ReadUint(w, off, 2)

\* the header and the samples of file w, read back, are those of n samples
\* pcm16 at rate r
IsWavOf(w, pcm16, r) ==
    /\ Len(w) = 44 + 2 * Len(pcm16)
    /\ \A b \in 1..Len(w) : w[b] \in 0..255
    /\ SubSeq(w, 1, 4) = RIFF
    /\ ReadUint(w, 4, 4) = 36 + 2 * Len(pcm16)
    /\ SubSeq(w, 9, 12) = WAVE
    /\ SubSeq(w, 13, 16) = FMT
    /\ ReadUint(w, 20, 2) = 1
    /\ ReadUint(w, 22, 2) = 1
    /\ ReadUint(w, 24, 4) = r
    /\ ReadUint(w, 28, 4) = 2 * r
    /\ ReadUint(w, 32, 2) = 2
    /\ ReadUint(w, 34, 2) = 16
    /\ SubSeq(w, 37, 40) = DATA
    /\ ReadUint(w, 40, 4) = 2 * Len(pcm16)
    /\ \A i \in 1..Len(pcm16) : ReadInt16(w, 44 + 2 * (i - 1)) = pcm16[i]

\* C23: the file encodeWav builds for n samples at rate r has 44 + 2n bytes,
\* its header reads RIFF size 36 + 2n, format tag 1, one channel, sample
\* rate r, byte rate 2r, block align 2, 16 bits per sample and data size 2n,
\* and the n samples follow in order as little-endian signed 16-bit values:
\* so for the clip of every segment handed over (rate TARGET_SR) and for the
\* same samples encoded at every other rate.
C23_WavLayout ==
    encoded # NoClip =>
        /\ IsWavOf(encoded.wav, encoded.pcm16, TARGET_SR)
        /\ \A r \in Rates : IsWavOf(EncodeWav(encoded.pcm16, r), encoded.pcm16, r)

C23_Witness ==
    /\ encoded.inSr = TARGET_SR /\ encoded.samples = <<-6, 4, 0>>
    /\ encoded.pcm16 = <<-32768, 32767, 0>>
    /\ SubSeq(encoded.wav, 45, 50) = <<0, 128, 255, 127, 0, 0>>
    /\ Len(pipe) = 2

\* C24: floatTo16BitPCM maps every sample at or below -1 to -32768, every
\* sample at or above +1 to 32767 and 0 to 0, maps the samples strictly
\* between to values strictly between, and every output is a signed 16-bit
\* value.
C24_ClampedAsymmetricScale ==
    /\ Len(encoded.pcm16) = Len(encoded.segment16k)
    /\ \A i \in 1..Len(encoded.segment16k) :
           LET s == encoded.segment16k[i]
               o == encoded.pcm16[i]
           IN  /\ o \in -32768..32767
               /\ s <= -SampleUnit => o = -32768
               /\ s >= SampleUnit => o = 32767
               /\ s = 0 => o = 0
               /\ (s > -SampleUnit /\ s < SampleUnit) => (o > -32768 /\ o < 32767)
               /\ (s > 0) = (o > 0)

C24_Witness ==
    /\ encoded.segment16k = <<4, 0, -6>>
    /\ encoded.pcm16 = <<32767, 0, -32768>>
    /\ Len(pipe) = 1

\* C25: the buffer resampleTo16k returns for n samples at 48 kHz has a length
\* within one sample of floor(n * 16000 / 48000) + 1.
C25_ResampledLength ==
    (encoded # NoClip /\ encoded.inSr = 48000) =>
        LET n == Len(encoded.samples)
            expected == (n * 16000) \div 48000 + 1
        IN  /\ Len(encoded.segment16k) >= expected - 1
            /\ Len(encoded.segment16k) <= expected + 1

C25_Witness ==
    /\ encoded.inSr = 48000 /\ Len(encoded.samples) = 3
    /\ Len(encoded.segment16k) = 2
    /\ encoded.segment16k[1] = encoded.samples[1]

\* the clip of a segment handed over first, the resampler phase at 0
FirstClip(samples, inSr) ==
    EncodeWav(FloatTo16BitPCM(ResampleTo16k(samples, inSr, 0)), TARGET_SR)

\* C26: the clip handleSegment builds for a segment is the clip of that
\* segment's samples and rate alone, whatever segments were handed over
\* before it: the resampler starts every segment at phase 0.
C26_ClipIndependentOfHistory ==
    encoded # NoClip => encoded.wav = FirstClip(encoded.samples, encoded.inSr)

C26_Witness ==
    /\ Len(pipe) = 2
    /\ encoded.inSr = 48000 /\ encoded.samples = <<-6, 4>>
    /\ encoded.segment16k = <<-6>>
    /\ resamplePhase = 2

\* ------------------------------------------------- the capture buffer's claims
\* the frame a processFrame step processes
Arrived == [id |-> streamPos + 1, len |-> samplesPerFrame]

\* C27: every frame processed while Speaking, voiced or not, is appended to
\* the capture buffer once, after the frames appended before it: a frame that
\* enters Speaking starts the buffer, a frame processed in Speaking extends
\* it by itself alone, and the frame that ends the hangover window is the
\* last frame of the segment handed over, behind all the buffered ones.
C27_SpeakingFramesBuffered ==
    [][lastOp' = "frame" =>
          /\ (~inSpeech /\ inSpeech') => captureBuf' = <<Arrived>>
          /\ (inSpeech /\ inSpeech') => captureBuf' = Append(captureBuf, Arrived)
          /\ (inSpeech /\ ~inSpeech') =>
                 /\ captureBuf' = <<>>
                 /\ consecVoiced' = 0
                 /\ out'.how = "hangover"
                 /\ out'.ids = Append(FrameIds(captureBuf), Arrived.id)
                 /\ out'.samples = SumLen(captureBuf) + Arrived.len
          /\ (~inSpeech /\ ~inSpeech') => captureBuf' = captureBuf]_vars

C27_Witness ==
    /\ lastOp = "frame" /\ inSpeech
    /\ consecUnvoiced = 2 /\ Len(captureBuf) = 4
    /\ \A i \in 1..Len(captureBuf) : captureBuf[i].id = i + 1
    /\ streamPos = 5

\* C28: the noise floor changes only in a processFrame step taken while not
\* in speech on a frame at or below the threshold (1.5 x the noise floor);
\* a frame processed while Speaking and a frame above the threshold leave
\* it as it was, and so does every step that is not a frame.
C28_NoiseFloorUpdatedOnlyInSilence ==
    [][/\ noiseRms' # noiseRms =>
              /\ ~inSpeech
              /\ \E rms \in Levels :
                     ProcessFrame(rms) /\ ~AboveThreshold(rms, noiseRms)
       /\ \A rms \in Levels :
              (ProcessFrame(rms) /\ (inSpeech \/ AboveThreshold(rms, noiseRms)))
                  => noiseRms' = noiseRms]_vars

C28_Witness ==
    /\ lastOp = "frame" /\ inSpeech
    /\ consecUnvoiced = 1 /\ unvoicedRun = 1
    /\ noiseRms = InitNoiseRms - 1

\* ------------------------------------------------------ the stages' claims
\* C29: within one handleSegment call the gloss request is issued only in the
\* step in which its transcription request returned a non-empty text and
\* that text was passed to the observer (the call's first result), and the
\* animation-script request only in the step in which its gloss request,
\* issued before, returned a non-empty gloss; no stage is entered twice or
\* out of order.
C29_StagesInOrder ==
    [][\A i \in 1..Len(pipe) :
           /\ (pipe'[i].glossReq /\ ~pipe[i].glossReq) =>
                  /\ pipe[i].stage = "transcribing" /\ pipe'[i].stage = "glossing"
                  /\ Truthy(pipe'[i].text)
                  /\ pipe[i].nResults = 0 /\ pipe'[i].nResults = 1
                  /\ currentSegment'.transcription = pipe'[i].text
                  /\ ~pipe'[i].sigmlReq
           /\ (pipe'[i].sigmlReq /\ ~pipe[i].sigmlReq) =>
                  /\ pipe[i].stage = "glossing" /\ pipe'[i].stage = "sigml"
                  /\ pipe[i].glossReq /\ pipe[i].nResults = 1
                  /\ Truthy(pipe'[i].gloss)
           /\ pipe[i].glossReq => pipe'[i].glossReq
           /\ pipe[i].sigmlReq => pipe'[i].sigmlReq
           /\ (pipe'[i].stage = "glossing") => pipe'[i].glossReq
           /\ (pipe'[i].stage = "sigml") => pipe'[i].sigmlReq]_vars

C29_Witness ==
    \E i \in 1..Len(pipe) :
        /\ pipe[i].stage = "sigml" /\ pipe[i].sigmlReq /\ pipe[i].glossReq
        /\ pipe[i].text = <<i>> /\ pipe[i].gloss = <<i, 0, i>>
        /\ pipe[i].nResults = 1

\* ----------------------------------------------------- the play queue drains
\* the step ends a playNextSentence call: its trailing pause is over
HoldEnds == Len(runs') < Len(runs)

\* the step takes entry x off the queue, to play it or to skip it
Takes(x) ==
    /\ Len(dequeued') = Len(dequeued) + 1
    /\ dequeued'[Len(dequeued')] = x

\* C30: with the timers firing and no Clear click, every entry in the play
\* queue is taken off it, played or skipped: an entry leaves the queue only
\* by being taken (or by a Clear), the end of each hold and trailing pause
\* leaves the scheduler Idle with the next attempt scheduled, and a queue
\* that holds entries is eventually empty with the scheduler Idle.
C30_QueueDrains ==
    /\ [][HoldEnds => /\ ~isPlayingRef'
                      /\ nextTimers' = nextTimers + 1
                      /\ playbackQueue' = playbackQueue]_vars
    /\ [][\A i \in 1..Len(playbackQueue) :
              \/ \E j \in 1..Len(playbackQueue') :
                     playbackQueue'[j] = playbackQueue[i]
              \/ i = 1 /\ Takes(playbackQueue[i].seg)
              \/ nClears' > nClears]_vars
    /\ (playbackQueue # <<>> /\ nClears = 0)
           ~> (nClears > 0 \/ (playbackQueue = <<>> /\ ~isPlayingRef))

C30_Witness ==
    /\ nClears = 0 /\ cwasaLoaded
    /\ playbackQueue = <<>> /\ ~isPlayingRef /\ runs = <<>>
    /\ Len(dequeued) = 2 /\ dequeued = inserted
    /\ Len(playLog) = 1

\* ------------------------------------------------------- a call that hangs
\* the renderer will never be ready: the script failed to load, or its
\* timers ran without a successful CWASA.init
RendererFailed ==
    scriptStage = "failed" \/ (scriptStage = "done" /\ ~initOnceRef)

Hung == Len(pipe) > 0 /\ pipe[1].stage # "done"

LaterPlayed ==
    \A i \in Later : \E k \in 1..Len(playLog) : playLog[k] = pipe[i].seg

HoldOf(r) == r.held + 300

\* C32, as claimed: the hold of every played entry lasts at least the
\* estimated duration max(1000, 800 n + 200) ms of its n gloss words, also
\* for n = 0.
C32_HoldCoversEstimate ==
    [][\A i \in 1..Len(runs) :
           (runs' = RemoveAt(runs, i) /\ runs[i].pc = runs[i].words)
               => HoldOf(runs[i]) >= EstimateAnimationDuration(runs[i].words)]_vars

\* ------------------------------------------------ the capture buffer's size
\* C33, as claimed: a fixed number of frames bounds the capture buffer for
\* every frame stream.  The only frame count after which processFrame closes a
\* segment is the hangover window, so the bound is taken to be
\* STOP_TRIGGER_FRAMES.
C33_CaptureBufferBounded == Len(captureBuf) <= STOP_TRIGGER_FRAMES

\* ------------------------------------------------- the fields of a sentence
\* C34, as claimed: the transcription stored in a completed sentence is the
\* text transcribed for the segment whose gloss and script the sentence
\* holds (the transcription service's text for segment k is <<k>>).
C34_SentenceOfOneSegment ==
    \A k \in 1..Len(sentences) :
        sentences[k].transcription = <<sentences[k].seg>>

\* ------------------------------------------------ sentences and the scheduler
\* the last n entries of q
Last(q, n) == SubSeq(q, Len(q) - n + 1, Len(q))

\* C35: no sentence is inserted into the pending buffer or the play queue
\* twice, and once the display has committed the page's list every sentence
\* in the list has been inserted, in list order, after everything inserted
\* before the last Clear.
C35_InsertedExactlyOnce ==
    /\ \A i, j \in 1..Len(inserted) : inserted[i] = inserted[j] => i = j
    /\ ~sentencesChanged =>
           /\ Len(inserted) >= Len(sentences)
           /\ Last(inserted, Len(sentences)) = Segs(sentences)
           /\ playedSentences = Len(sentences)

C35_Witness ==
    /\ nClears = 1 /\ ~sentencesChanged
    /\ inserted = <<1, 2>>
    /\ Segs(sentences) = <<2>>
    /\ cwasaLoaded

\* --------------------------------------------------- one capture at a time
\* C36: at most one capture session is live: never more than one media
\* stream acquired and not stopped, and never more than one frame pump
\* delivering frames to the VAD state.
C36_OneCaptureSession ==
    /\ liveStreams <= 1
    /\ livePumps <= 1

\* ------------------------------------------------- the processing indicator
\* C37: isProcessing is true exactly while some handleSegment call has not
\* yet ended.
C37_ProcessingWhileInFlight ==
    isProcessing = (\E i \in 1..Len(pipe) : pipe[i].stage # "done")

\* ------------------------------------------------------- results after Clear
\* history: the handleSegment calls made before a Clear click
BeforeClear(calls) == [i \in 1..Len(calls) |-> [calls[i] EXCEPT !.cleared = TRUE]]

\* the Clear click, with the calls made so far marked in the record
ClearClickSeen == ClearPage(BeforeClear(pipe))

\* one call at a time, with the Clear click at any point of it
NextClear ==
    \/ AllDone /\ SubmitSegment(FALSE)
    \/ Pipeline
    \/ ClearClickSeen
    \/ Player

SpecClear == InitCalm /\ [][NextClear]_vars

\* C38: after a Clear click no result of a segment that was submitted before
\* the click is in the sentence list, and none is passed to the renderer.
C38_NothingOldAfterClear ==
    /\ [](\A k \in 1..Len(sentences) : ~pipe[sentences[k].seg].cleared)
    /\ [][playLog' # playLog =>
              ~pipe[playLog'[Len(playLog')]].cleared]_vars

\* ------------------------------------------------------------ frame slicing
\* chunk sizes: one worklet block, one whole frame, more than two frames
ChunkSizes == {RenderQuantum, samplesPerFrame, 2 * samplesPerFrame + 1}

NextFrames ==
    \/ pumpPc = "idle" /\ StartClick
    \/ pumpPc = "idle" /\ StartGranted
    \/ pumpPc = "idle" /\ Stop
    \/ \E c \in ChunkSizes : OnMessage(c)
    \/ \E rms \in Levels : LoopFrame(rms)
    \/ Carry

SpecFrames == Init /\ [][NextFrames]_vars

RECURSIVE Flat(_)
Flat(fs) == IF fs = <<>> THEN <<>> ELSE Head(fs) \o Flat(Tail(fs))

\* the samples not yet passed to processFrame
Remainder == IF pumpPc = "loop" THEN Subarray(chunkBuf, offset, Len(chunkBuf))
             ELSE frameBuf

\* C39: the frames passed to processFrame since capture went live, in order
\* and followed by the carried remainder, are the samples received since
\* then, each once and in order; every frame has samplesPerFrame samples and
\* between two chunks the remainder is shorter than samplesPerFrame.
C39_SlicingLosesNothing ==
    /\ Flat(framed) \o Remainder = [i \in 1..received |-> i]
    /\ \A k \in 1..Len(framed) : Len(framed[k]) = samplesPerFrame
    /\ pumpPc = "idle" => Len(frameBuf) < samplesPerFrame

\* ---------------------------------------------- capture buffer and VAD state
\* C40: at every point between processFrame, flush and stop calls the capture
\* buffer holds frames exactly when the VAD is in speech, and the counters of
\* consecutive voiced and consecutive unvoiced frames are not both non-zero.
C40_BufferIffSpeaking ==
    /\ (Len(captureBuf) > 0) = inSpeech
    /\ ~(consecVoiced > 0 /\ consecUnvoiced > 0)

\* in speech with a silent frame buffered after the voiced ones
C40_Witness ==
    /\ lastOp = "frame" /\ inSpeech
    /\ Len(captureBuf) = START_TRIGGER_FRAMES + 1
    /\ consecVoiced = 0 /\ consecUnvoiced = 1


====
